---- MODULE Spec2Model ----
(***************************************************************************)
(* A model of the MAR archive tools of rinsuki/mayakashi:                  *)
(*   - format/index_file.rs : the index container (write / parse)          *)
(*   - cmd/create.rs        : the parallel packer ("create")               *)
(*   - cmd/split.rs         : the shard splitter ("split")                 *)
(* Several specifications share the module: SpecIndex, SpecCreate,         *)
(* SpecSplit, SpecPlanner, ...  Each one keeps the variables of the other  *)
(* programs at rest.                                                       *)
(***************************************************************************)
EXTENDS Integers, Sequences, FiniteSets, TLC

VARIABLES
    \* ---- format/index_file.rs -------------------------------------------
    ix_pc,          \* "write" -> "parse" -> "done"
    ix_file,        \* the FileIndexFile handed to write_index_file
    ix_output,      \* the bytes write_index_file wrote
    ix_parsed,      \* what parse_index_file returned ([ok, file])
    \* ---- cmd/create.rs --------------------------------------------------
    args,           \* [input, jobs, dedup]
    files,          \* what walk_dir found, sorted by path
    workload,       \* the queue of files (VecDeque<FileInfo>)
    mutex,          \* who holds each Mutex: 0 = nobody, w = worker w
    pc,             \* each worker's position in its loop
    file,           \* each worker's current file
    chunk_infos,    \* each worker's chunk_infos (and so `compressed`) of that file
    offset,         \* each worker's `offset` from the data file
    entries,        \* each worker's local `entries`
    already_well_known_hashes,
    deduped_file_entries,
    hash_to_offsets,
    outdatfile,     \* the writes made to .mar.dat, in the order they were made
    main_pc,        \* the main thread: "join" -> "done" | "panic"
    joined,         \* how many threads the main thread has joined
    ees,            \* the main thread's `ees`
    outidxfile,     \* the bytes of .mar.idx
    \* ---- cmd/split.rs ---------------------------------------------------
    split_args,     \* [count]
    src_idx,        \* the bytes of <input>.idx
    src_dat,        \* the bytes of <input>.dat
    split_pc,       \* "parse" -> "pack" -> "shard" <-> "entries" -> "done" | "panic"
    split_entries,  \* `entries`: what the bin-packing loop has still to visit
    already_well_known_hahes,   \* hash -> index of the shard holding it
    output_files,   \* the ChunkedFile of each shard
    all_size,
    shard_no,       \* `i` of the loop that writes the shards
    in_pos,         \* how many of file.entries the inner loop has visited
    well_known_hashes,  \* hash -> offset in the shard being written
    out_entries,
    datfile,        \* the bytes of the .dat of the shard being written
    shard_idx,      \* the bytes of the .split.<i>.mar.idx files written, by i
    shard_dat,      \* the bytes of the .split.<i>.mar.dat files written, by i
    \* ---- cmd/create.rs, compress_file on its own -------------------------
    pl_pc,          \* "start" -> ("map" ->) "returned"
    pl_input,       \* input_data: the body compress_file is called with
    pl_sources,     \* `sources`
    pl_done,        \* what the par_iter().map() has produced so far, by index
    pl_lock,        \* RAYON_LOCK is held
    pl_chunks       \* the Vec<Chunk> returned

ixVars == <<ix_pc, ix_file, ix_output, ix_parsed>>

createVars == <<args, files, workload, mutex, pc, file, chunk_infos, offset, entries,
                already_well_known_hashes, deduped_file_entries, hash_to_offsets,
                outdatfile, main_pc, joined, ees, outidxfile>>

splitVars == <<split_args, src_idx, src_dat, split_pc, split_entries,
               already_well_known_hahes, output_files, all_size, shard_no, in_pos,
               well_known_hashes, out_entries, datfile, shard_idx, shard_dat>>

plVars == <<pl_pc, pl_input, pl_sources, pl_done, pl_lock, pl_chunks>>

vars == <<ixVars, createVars, splitVars, plVars>>

(***************************************************************************)
(* Generic helpers                                                         *)
(***************************************************************************)

\* F(v), with v evaluated once, before F: a value that is used several
\* times is computed once this way
With(v, F(_)) == CHOOSE y \in {F(x) : x \in {v}} : TRUE

\* Option<T> is a sequence of zero or one element.
None == <<>>
Some(x) == <<x>>

RECURSIVE ConcatFrom(_, _, _)
ConcatFrom(ss, k, acc) ==
    IF k > Len(ss) THEN acc ELSE ConcatFrom(ss, k + 1, acc \o ss[k])

\* the concatenation of a sequence of sequences
Concat(ss) == With(ss, LAMBDA s : ConcatFrom(s, 1, <<>>))

RECURSIVE SumFrom(_, _, _)
SumFrom(ns, k, acc) ==
    IF k > Len(ns) THEN acc ELSE SumFrom(ns, k + 1, acc + ns[k])

\* the sum of a sequence of numbers
Sum(ns) == With(ns, LAMBDA s : SumFrom(s, 1, 0))

\* a < b as byte strings (Ord for str / String): at the first position
\* where they differ a has the smaller byte, or a is a proper prefix of b
LexLess(a, b) ==
    With(<<a, b>>, LAMBDA p :
        LET x == p[1]
            y == p[2]
            common == IF Len(x) < Len(y) THEN Len(x) ELSE Len(y)
            differ == {k \in 1..common : x[k] # y[k]}
        IN  IF differ = {} THEN Len(x) < Len(y)
            ELSE \E k \in differ : (\A m \in differ : k <= m) /\ x[k] < y[k])

\* a stable sort of s by the strict order Less (slice::sort_by and friends)
StableSort(seq, Less(_, _)) ==
    With(seq, LAMBDA s :
        LET Before(i, j) == Less(s[i], s[j]) \/ (~Less(s[j], s[i]) /\ i < j)
            Rank(i) == Cardinality({j \in 1..Len(s) : Before(j, i)}) + 1
        IN  [k \in 1..Len(s) |-> s[CHOOSE i \in 1..Len(s) : Rank(i) = k]])

\* s starts with the bytes p
StartsWith(s, p) ==
    /\ Len(p) <= Len(s)
    /\ SubSeq(s, 1, Len(p)) = p

(***************************************************************************)
(* The protocol-buffer schema (crate::proto, generated; the schema is      *)
(* listed in the format description).  Wire format: base-128 varints,      *)
(* tag = field number * 8 + wire type, wire type 0 = varint, 2 = length    *)
(* delimited; proto3 leaves out scalar fields holding their default.       *)
(***************************************************************************)

Passthrough == 0
Lz4 == 1
Zstandard == 2

RECURSIVE EncodeVarint(_)
EncodeVarint(n) ==
    IF n < 128 THEN <<n>>
    ELSE <<(n % 128) + 128>> \o EncodeVarint(n \div 128)

VarintField(num, v) ==
    With(v, LAMBDA x : IF x = 0 THEN <<>> ELSE EncodeVarint(num * 8) \o EncodeVarint(x))

LenDelim(num, bytes) ==
    With(bytes, LAMBDA b : EncodeVarint(num * 8 + 2) \o EncodeVarint(Len(b)) \o b)

BytesField(num, bytes) ==
    With(bytes, LAMBDA b : IF b = <<>> THEN <<>> ELSE LenDelim(num, b))

EncodeChunkInfo(c) ==
    VarintField(1, c.compressed_length)
        \o VarintField(2, c.compressed_method)
        \o VarintField(3, c.original_length)

EncodeTimestamp(t) ==
    VarintField(1, t.seconds) \o VarintField(2, t.nanos)

EncodeFileInfo(info) ==
    With(info, LAMBDA i :
        BytesField(1, i.path)
            \o Concat([k \in 1..Len(i.chunks) |-> LenDelim(2, EncodeChunkInfo(i.chunks[k]))])
            \o VarintField(3, i.chunks_crc32)
            \o BytesField(4, i.chunks_sha256)
            \o VarintField(5, i.original_crc32)
            \o BytesField(6, i.original_sha256)
            \o Concat([k \in 1..Len(i.modified_time) |->
                          LenDelim(7, EncodeTimestamp(i.modified_time[k]))])
            \o VarintField(8, i.priority))

EncodeFileEntry(entry) ==
    With(entry, LAMBDA e :
        Concat([k \in 1..Len(e.info) |-> LenDelim(1, EncodeFileInfo(e.info[k]))])
            \o VarintField(2, e.file_index)
            \o VarintField(3, e.body_offset)
            \o VarintField(4, e.body_size))

\* FileIndexFile::encode_to_vec
EncodeToVec(index_file) ==
    With(index_file.entries, LAMBDA es :
        Concat([k \in 1..Len(es) |-> LenDelim(1, EncodeFileEntry(es[k]))]))

\* ---- decoding ------------------------------------------------------------

Pow128 == <<1, 128, 16384, 2097152, 268435456>>

\* The varint at b[i..]: it ends with the first byte below 128.  TLC's
\* integers end at 2^31 - 1: a varint of more than 31 bits is refused here
\* (no value of the model is that large).
ReadVarint(b, i) ==
    LET ends == {j \in i..(IF i + 5 < Len(b) THEN i + 5 ELSE Len(b)) : b[j] < 128}
        j == CHOOSE e \in ends : \A m \in ends : e <= m
        n == j - i + 1
    IN  IF ends = {} THEN [ok |-> FALSE, val |-> 0, next |-> i]
        ELSE IF n > 5 \/ (n = 5 /\ b[j] >= 8)
        THEN [ok |-> FALSE, val |-> 0, next |-> i]
        ELSE [ok |-> TRUE,
              val |-> Sum([k \in 1..n |-> (b[i + k - 1] % 128) * Pow128[k]]),
              next |-> j + 1]

NoFields == [ok |-> FALSE, fields |-> <<>>, next |-> 0]

\* the field at b[i..], as a (number, wire type, value) triple, and where the
\* next one starts; or failure
ReadField(b, i) ==
    With(ReadVarint(b, i), LAMBDA t :
        IF ~t.ok \/ t.val \div 8 = 0 THEN NoFields
        ELSE With(ReadVarint(b, t.next), LAMBDA v :
             IF t.val % 8 = 0
             THEN IF ~v.ok THEN NoFields
                  ELSE [ok |-> TRUE,
                        fields |-> <<[num |-> t.val \div 8, wire |-> 0,
                                      val |-> v.val, bytes |-> <<>>]>>,
                        next |-> v.next]
             ELSE IF t.val % 8 = 2
             THEN IF ~v.ok \/ v.next + v.val - 1 > Len(b) THEN NoFields
                  ELSE [ok |-> TRUE,
                        fields |-> <<[num |-> t.val \div 8, wire |-> 2, val |-> 0,
                                      bytes |-> SubSeq(b, v.next, v.next + v.val - 1)]>>,
                        next |-> v.next + v.val]
             ELSE NoFields))

RECURSIVE ReadFieldsFrom(_, _, _)
\* the fields of b[i..], at most 2^k of them, in their order (the first half,
\* then the second half from where the first one ended), or failure
ReadFieldsFrom(b, i, k) ==
    IF i > Len(b) THEN [ok |-> TRUE, fields |-> <<>>, next |-> i]
    ELSE IF k = 0 THEN ReadField(b, i)
    ELSE With(ReadFieldsFrom(b, i, k - 1), LAMBDA l :
         IF ~l.ok THEN NoFields
         ELSE With(ReadFieldsFrom(b, l.next, k - 1), LAMBDA r :
              IF ~r.ok THEN NoFields
              ELSE [ok |-> TRUE, fields |-> l.fields \o r.fields, next |-> r.next]))

\* the fields of a message: a message of n bytes has fewer than 2^k fields
\* when 2^k >= n
ReadFields(bytes) ==
    With(bytes, LAMBDA b :
        With(CHOOSE k \in 0..30 : 2^k >= Len(b) /\ \A j \in 0..(k - 1) : 2^j < Len(b),
             LAMBDA k : ReadFieldsFrom(b, 1, k)))

\* every known field came with the wire type of its schema type
WireOk(fs, varints, delimited) ==
    \A k \in 1..Len(fs) :
        /\ fs[k].num \in varints => fs[k].wire = 0
        /\ fs[k].num \in delimited => fs[k].wire = 2

FieldsOf(fs, num) ==
    LET Is(f) == f.num = num IN SelectSeq(fs, Is)

\* a singular scalar: the last occurrence wins, the default when absent
LastVal(fs, num) ==
    With(FieldsOf(fs, num), LAMBDA s : IF s = <<>> THEN 0 ELSE s[Len(s)].val)

LastBytes(fs, num) ==
    With(FieldsOf(fs, num), LAMBDA s : IF s = <<>> THEN <<>> ELSE s[Len(s)].bytes)

\* a singular embedded message: its occurrences are merged
MergedBytes(fs, num) ==
    With(FieldsOf(fs, num), LAMBDA s : Concat([k \in 1..Len(s) |-> s[k].bytes]))

NoMessage == [ok |-> FALSE, val |-> <<>>]

\* a string field holds valid UTF-8 (here: bytes below 128)
ValidUtf8(bytes) == \A k \in 1..Len(bytes) : bytes[k] < 128

\* the messages decoded from a sequence of length-delimited fields
DecodeAll(fields, DecodeOne(_)) ==
    With([k \in 1..Len(fields) |-> DecodeOne(fields[k].bytes)], LAMBDA ms :
        IF \E k \in 1..Len(ms) : ~ms[k].ok THEN NoMessage
        ELSE [ok |-> TRUE, val |-> [k \in 1..Len(ms) |-> ms[k].val]])

DecodeChunkInfo(b) ==
    With(ReadFields(b), LAMBDA r :
        IF ~r.ok \/ ~WireOk(r.fields, {1, 2, 3}, {}) THEN NoMessage
        ELSE [ok |-> TRUE,
              val |-> [compressed_length |-> LastVal(r.fields, 1),
                       compressed_method |-> LastVal(r.fields, 2),
                       original_length |-> LastVal(r.fields, 3)]])

DecodeTimestamp(b) ==
    With(ReadFields(b), LAMBDA r :
        IF ~r.ok \/ ~WireOk(r.fields, {1, 2}, {}) THEN NoMessage
        ELSE [ok |-> TRUE,
              val |-> [seconds |-> LastVal(r.fields, 1), nanos |-> LastVal(r.fields, 2)]])

DecodeFileInfo(b) ==
    With(ReadFields(b), LAMBDA r :
        IF ~r.ok \/ ~WireOk(r.fields, {3, 5, 8}, {1, 2, 4, 6, 7}) THEN NoMessage
        ELSE With(<<DecodeAll(FieldsOf(r.fields, 2), DecodeChunkInfo),
                    DecodeTimestamp(MergedBytes(r.fields, 7)),
                    LastBytes(r.fields, 1)>>,
                  LAMBDA d :
             IF ~d[1].ok \/ ~d[2].ok \/ ~ValidUtf8(d[3]) THEN NoMessage
             ELSE [ok |-> TRUE,
                   val |-> [path |-> d[3],
                            chunks |-> d[1].val,
                            chunks_crc32 |-> LastVal(r.fields, 3),
                            chunks_sha256 |-> LastBytes(r.fields, 4),
                            original_crc32 |-> LastVal(r.fields, 5),
                            original_sha256 |-> LastBytes(r.fields, 6),
                            modified_time |-> IF FieldsOf(r.fields, 7) = <<>> THEN None
                                              ELSE Some(d[2].val),
                            priority |-> LastVal(r.fields, 8)]]))

DecodeFileEntry(b) ==
    With(ReadFields(b), LAMBDA r :
        IF ~r.ok \/ ~WireOk(r.fields, {2, 3, 4}, {1}) THEN NoMessage
        ELSE With(DecodeFileInfo(MergedBytes(r.fields, 1)), LAMBDA info :
             IF ~info.ok THEN NoMessage
             ELSE [ok |-> TRUE,
                   val |-> [info |-> IF FieldsOf(r.fields, 1) = <<>> THEN None
                                     ELSE Some(info.val),
                            file_index |-> LastVal(r.fields, 2),
                            body_offset |-> LastVal(r.fields, 3),
                            body_size |-> LastVal(r.fields, 4)]]))

\* FileIndexFile::decode
Decode(b) ==
    With(ReadFields(b), LAMBDA r :
        IF ~r.ok \/ ~WireOk(r.fields, {}, {1}) THEN NoMessage
        ELSE With(DecodeAll(FieldsOf(r.fields, 1), DecodeFileEntry), LAMBDA es :
             IF ~es.ok THEN NoMessage
             ELSE [ok |-> TRUE, val |-> [entries |-> es.val]]))

(***************************************************************************)
(* Zstandard (external library), as far as the container needs it: a frame *)
(* is the frame magic followed by the content; decoding accepts a          *)
(* concatenation of frames and nothing else.                               *)
(***************************************************************************)

ZSTD_MAGIC == <<40, 181, 47, 253>>

\* zstd::encode_all(raw, 22)
ZstdEncodeAll(raw) == ZSTD_MAGIC \o raw

\* zstd::decode_all(compressed)
ZstdDecodeAll(compressed) ==
    With(compressed, LAMBDA c :
        IF c = <<>> THEN [ok |-> TRUE, val |-> <<>>]
        ELSE IF StartsWith(c, ZSTD_MAGIC)
        THEN [ok |-> TRUE, val |-> SubSeq(c, 5, Len(c))]
        ELSE [ok |-> FALSE, val |-> <<>>])

(***************************************************************************)
(* format/index_file.rs                                                    *)
(***************************************************************************)

INDEX_MAGIC == <<77, 65, 82, 73>>    \* b"MARI"

\* u32::to_be_bytes
ToBeBytes(n) ==
    <<n \div 16777216, (n \div 65536) % 256, (n \div 256) % 256, n % 256>>

\* u32::from_be_bytes; TLC's integers end at 2^31 - 1, so a larger value
\* saturates there (no input of the model is that long)
FromBeBytes(b) ==
    IF b[1] >= 128 THEN 2147483647
    ELSE b[1] * 16777216 + b[2] * 65536 + b[3] * 256 + b[4]

\* WriteIndexFile with the two lengths in the other order
WriteIndexFile_LengthsSwapped(index_file) ==
    With(EncodeToVec(index_file), LAMBDA raw :
        With(ZstdEncodeAll(raw), LAMBDA index_file_bytes :
            INDEX_MAGIC
                \o ToBeBytes(Len(raw))
                \o ToBeBytes(Len(index_file_bytes))
                \o index_file_bytes))

\* write_index_file: the bytes written to `output`
WriteIndexFile(index_file) ==
    With(EncodeToVec(index_file), LAMBDA raw :
        With(ZstdEncodeAll(raw), LAMBDA index_file_bytes :
            INDEX_MAGIC
                \o ToBeBytes(Len(index_file_bytes))
                \o ToBeBytes(Len(raw))
                \o index_file_bytes))

Panic == [ok |-> FALSE, file |-> [entries |-> <<>>]]

\* parse_index_file: the FileIndexFile returned, or a panic
ParseIndexFile(bytes) ==
    With(bytes, LAMBDA input :
        IF Len(input) < 4 \/ SubSeq(input, 1, 4) # INDEX_MAGIC THEN Panic
        ELSE IF Len(input) < 12 THEN Panic
        ELSE LET compressed_len == FromBeBytes(SubSeq(input, 5, 8))
                 raw_len == FromBeBytes(SubSeq(input, 9, 12))
                 \* input.take(compressed_len).read_to_end: stops at the end of input
                 last == IF compressed_len > Len(input) - 12 THEN Len(input)
                         ELSE 12 + compressed_len
             IN  With(ZstdDecodeAll(SubSeq(input, 13, last)), LAMBDA raw :
                     IF ~raw.ok THEN Panic
                     ELSE IF Len(raw.val) # raw_len THEN Panic
                     ELSE With(Decode(raw.val), LAMBDA decoded :
                              IF ~decoded.ok THEN Panic
                              ELSE [ok |-> TRUE, file |-> decoded.val])))

\* ---- proto values, for the inputs of the model --------------------------

IxChunk(cl, m, ol) ==
    [compressed_length |-> cl, compressed_method |-> m, original_length |-> ol]

IxInfo(path, chunks, sha, mtime) ==
    [path |-> path, chunks |-> chunks,
     chunks_crc32 |-> Len(chunks) * 300, chunks_sha256 |-> IF chunks = <<>> THEN <<>> ELSE <<200 + sha>>,
     original_crc32 |-> sha * 70000, original_sha256 |-> IF sha = 0 THEN <<>> ELSE <<sha>>,
     modified_time |-> mtime, priority |-> 0]

IxEntry(info, off, size) ==
    [info |-> Some(info), file_index |-> 0, body_offset |-> off, body_size |-> size]

(***************************************************************************)
(* cmd/create.rs                                                           *)
(***************************************************************************)

CHUNK_SIZE == 512 * 1024

\* the size up to which compress_file stores a file as a single chunk
SINGLE_CHUNK_LIMIT == 8 * 1024 * 1024

\* The file bodies of the model.  A body is known by its number; `size` is
\* its length, and lz4 / zstd say how many eighths of their input the two
\* codecs (external libraries) make of any part of it.
Contents ==
    << [size |-> 100,     lz4 |-> 4, zstd |-> 5],     \* small, LZ4 wins
       [size |-> 0,       lz4 |-> 8, zstd |-> 8],     \* the empty file
       [size |-> 8388613, lz4 |-> 6, zstd |-> 2],     \* 8 MiB + 5: chunked
       [size |-> 600000,  lz4 |-> 9, zstd |-> 9],     \* incompressible
       [size |-> 524288,  lz4 |-> 9, zstd |-> 4],     \* CHUNK_SIZE, only zstd wins
       [size |-> 8388608, lz4 |-> 6, zstd |-> 5],     \* 8 MiB
       [size |-> 8388686, lz4 |-> 5, zstd |-> 5] >>   \* 16 strides and 78 bytes

\* lz4::block::compress(src, HIGHCOMPRESSION(12), false): the output's length
Lz4Compress(content, n) == (n * Contents[content].lz4) \div 8 + 1

\* zstd::Encoder at level 22: the output's length
ZstdCompress(content, n) == (n * Contents[content].zstd) \div 8 + 9

\* sha2::Sha256 over a body: the digest (one byte of it)
Sha256(content) == <<content>>

\* crc32fast over a body
Crc32(content) == content * 70001

Chunk(start, original_size, compressed, method) ==
    [start |-> start, original_size |-> original_size,
     compressed |-> compressed, compressed_method |-> method]

\* the strides without the `.min(input_data.len())` of the last one
Sources_NoClamp(len) ==
    [k \in 1..((len + CHUNK_SIZE - 1) \div CHUNK_SIZE) |->
        [i |-> (k - 1) * CHUNK_SIZE, len |-> CHUNK_SIZE]]

\* the (i, src) pairs of compress_file: CHUNK_SIZE strides over the input
Sources(len) ==
    [k \in 1..((len + CHUNK_SIZE - 1) \div CHUNK_SIZE) |->
        [i |-> (k - 1) * CHUNK_SIZE,
         len |-> IF k * CHUNK_SIZE < len THEN CHUNK_SIZE ELSE len - (k - 1) * CHUNK_SIZE]]

\* the closure of the par_iter().map() of compress_file
CompressSource(content, src) ==
    LET should_use_lz4 == src.i = 0
        compressed == IF should_use_lz4 THEN Lz4Compress(content, src.len)
                      ELSE ZstdCompress(content, src.len)
        is_compressed == compressed < (src.len \div 4) * 3
    IN  IF is_compressed
        THEN Chunk(src.i, src.len, compressed, IF should_use_lz4 THEN Lz4 ELSE Zstandard)
        ELSE Chunk(src.i, src.len, src.len, Passthrough)

\* compress_file: the chunks of a body (`compressed` is the length of the bytes)
CompressFile(content) ==
    LET len == Contents[content].size
        compressed_with_lz4 == Lz4Compress(content, len)
        compressed_with_zstd == ZstdCompress(content, len)
        sources == Sources(len)
    IN  IF len <= CHUNK_SIZE /\ len > compressed_with_lz4
        THEN <<Chunk(0, len, compressed_with_lz4, Lz4)>>
        ELSE IF len <= SINGLE_CHUNK_LIMIT
        THEN IF len > compressed_with_zstd
             THEN <<Chunk(0, len, compressed_with_zstd, Zstandard)>>
             ELSE <<Chunk(0, len, len, Passthrough)>>
        ELSE [k \in 1..Len(sources) |-> CompressSource(content, sources[k])]

\* the chunk_infos built from the chunks (create.rs, lines 272-281)
ChunkInfos(chunks) ==
    [k \in 1..Len(chunks) |->
        [compressed_length |-> chunks[k].compressed,
         compressed_method |-> chunks[k].compressed_method,
         original_length |-> chunks[k].original_size]]

\* compressed.len(): the chunks' bytes appended to one another
CompressedLen(infos) ==
    Sum([k \in 1..Len(infos) |-> infos[k].compressed_length])

\* ---- compress_file, step by step -----------------------------------------

\* lines 65-106: a body of at most 8 MiB comes back as one chunk
PlanSingle ==
    /\ pl_pc = "start"
    /\ Contents[pl_input].size <= SINGLE_CHUNK_LIMIT
    /\ pl_chunks' = CompressFile(pl_input)
    /\ pl_pc' = "returned"
    /\ UNCHANGED <<pl_input, pl_sources, pl_done, pl_lock>>
    /\ UNCHANGED <<ixVars, createVars, splitVars>>

\* lines 109-118: the strides of a larger body, then RAYON_LOCK.lock()
PlanSources ==
    /\ pl_pc = "start"
    /\ Contents[pl_input].size > SINGLE_CHUNK_LIMIT
    /\ ~pl_lock
    /\ pl_sources' = Sources(Contents[pl_input].size)
    /\ pl_done' = [k \in 1..Len(pl_sources') |-> None]
    /\ pl_lock' = TRUE
    /\ pl_pc' = "map"
    /\ UNCHANGED <<pl_input, pl_chunks>>
    /\ UNCHANGED <<ixVars, createVars, splitVars>>

\* lines 123-160: the pool runs the closure on one of the sources, whichever
\* it takes next
CompressOne(k) ==
    /\ pl_pc = "map"
    /\ pl_done[k] = None
    /\ pl_done' = [pl_done EXCEPT ![k] = Some(CompressSource(pl_input, pl_sources[k]))]
    /\ UNCHANGED <<pl_pc, pl_input, pl_sources, pl_lock, pl_chunks>>
    /\ UNCHANGED <<ixVars, createVars, splitVars>>

\* lines 161-165: collect() puts the results in the order of the sources,
\* drop(lock), return
Collect ==
    /\ pl_pc = "map"
    /\ \A k \in 1..Len(pl_done) : pl_done[k] # None
    /\ pl_chunks' = [k \in 1..Len(pl_done) |-> pl_done[k][1]]
    /\ pl_lock' = FALSE
    /\ pl_pc' = "returned"
    /\ UNCHANGED <<pl_input, pl_sources, pl_done>>
    /\ UNCHANGED <<ixVars, createVars, splitVars>>

\* ---- the input tree ------------------------------------------------------

INPUT == <<114>>                                     \* --input "r"
DS_STORE == <<46, 68, 83, 95, 83, 116, 111, 114, 101>>       \* ".DS_Store"

WalkedFile(rel, content, mtime) ==
    [path |-> INPUT \o rel, content |-> content, mtime |-> mtime]

\* the regular files an input tree of the model is made of
FileUniverse ==
    { WalkedFile(<<47, 97>>, 1, 10),                       \* r/a
      WalkedFile(<<47, 98>>, 1, 20),                       \* r/b  = a
      WalkedFile(<<47, 99>>, 1, 30),                       \* r/c  = a
      WalkedFile(<<47, 100, 47>> \o DS_STORE, 1, 40),      \* r/d/.DS_Store = a
      WalkedFile(<<47, 100, 47, 101>>, 3, 50),             \* r/d/e
      WalkedFile(<<47, 102>>, 3, 60),                      \* r/f  = d/e
      WalkedFile(<<47, 103>>, 2, 70) }                     \* r/g  (empty)

MaxFiles == 3
MaxJobs == 2

NoFile == [path |-> <<>>, content |-> 0, mtime |-> 0]

\* FileName that hands back the whole path
FileName_WholePath(path) == path

\* Path::file_name: what follows the last separator
FileName(path) ==
    LET slashes == {k \in 1..Len(path) : path[k] = 47}
        last == IF slashes = {} THEN 0 ELSE CHOOSE k \in slashes : \A m \in slashes : m <= k
    IN  SubSeq(path, last + 1, Len(path))

PathLess(f, g) == LexLess(f.path, g.path)

\* walk_dir, then files.sort_by_key(path)
SortedFiles(found) ==
    LET some == CHOOSE q \in [1..Cardinality(found) -> found] :
                    \A a, b \in 1..Cardinality(found) : a # b => q[a] # q[b]
    IN  StableSort(some, PathLess)

Workers == 1..args.jobs

MutexNames ==
    {"workload", "already_well_known_hashes", "deduped_file_entries",
     "hash_to_offsets", "outdatfile", "RAYON_LOCK"}

Lock(m, w) == [mutex EXCEPT ![m] = w]

\* Unlock that never releases: the guard is kept for ever
Unlock_Forgets(m) == mutex

Unlock(m) == [mutex EXCEPT ![m] = 0]

\* NewFileEntry with body_size taken from the original lengths
NewFileEntry_OriginalSize(f, infos, off) ==
    [info |-> Some([path |-> SubSeq(f.path, Len(args.input) + 1, Len(f.path)),
                    chunks |-> infos,
                    chunks_crc32 |-> f.content * 60013,
                    chunks_sha256 |-> <<128 + f.content>>,
                    original_crc32 |-> Crc32(f.content),
                    original_sha256 |-> Sha256(f.content),
                    modified_time |-> Some([seconds |-> f.mtime, nanos |-> 0]),
                    priority |-> 0]),
     file_index |-> 0,
     body_offset |-> off,
     body_size |-> Sum([k \in 1..Len(infos) |-> infos[k].original_length])]

\* proto::FileEntry as the worker builds it (create.rs, lines 289-317)
NewFileEntry(f, infos, off) ==
    [info |-> Some([path |-> SubSeq(f.path, Len(args.input) + 1, Len(f.path)),
                    chunks |-> infos,
                    chunks_crc32 |-> f.content * 60013,
                    chunks_sha256 |-> <<128 + f.content>>,
                    original_crc32 |-> Crc32(f.content),
                    original_sha256 |-> Sha256(f.content),
                    modified_time |-> Some([seconds |-> f.mtime, nanos |-> 0]),
                    priority |-> 0]),
     file_index |-> 0,
     body_offset |-> off,
     body_size |-> CompressedLen(infos)]

\* DatLen that lands at the start of the file
DatLen_Zero(dat) == 0

\* the length of the data file, where seek(SeekFrom::End(0)) lands: the
\* furthest end of the writes made so far
DatLen(dat) ==
    IF dat = <<>> THEN 0
    ELSE LET ends == {dat[k].at + dat[k].len : k \in 1..Len(dat)}
         IN  CHOOSE e \in ends : \A f \in ends : f <= e

CreateInit ==
    /\ args \in [input : {INPUT}, jobs : 0..MaxJobs, dedup : BOOLEAN]
    /\ \E found \in SUBSET FileUniverse :
          /\ Cardinality(found) <= MaxFiles
          /\ files = SortedFiles(found)
    /\ workload = files
    /\ mutex = [m \in MutexNames |-> 0]
    /\ pc = [w \in Workers |-> "pop"]
    /\ file = [w \in Workers |-> NoFile]
    /\ chunk_infos = [w \in Workers |-> <<>>]
    /\ offset = [w \in Workers |-> 0]
    /\ entries = [w \in Workers |-> <<>>]
    /\ already_well_known_hashes = {}
    /\ deduped_file_entries = <<>>
    /\ hash_to_offsets = <<>>
    /\ outdatfile = <<>>
    /\ main_pc = "join"
    /\ joined = 0
    /\ ees = <<>>
    /\ outidxfile = <<>>

\* line 219-223: workload.lock().unwrap().pop_front(), the .DS_Store filter
\* and (lines 225-251) reading and hashing the file
PopFront(w) ==
    /\ pc[w] = "pop"
    /\ mutex["workload"] = 0
    /\ IF workload = <<>>
       THEN /\ pc' = [pc EXCEPT ![w] = "exit"]
            /\ UNCHANGED <<workload, file>>
       ELSE /\ workload' = Tail(workload)
            /\ IF FileName(Head(workload).path) = DS_STORE
               THEN UNCHANGED <<pc, file>>
               ELSE /\ file' = [file EXCEPT ![w] = Head(workload)]
                    /\ pc' = [pc EXCEPT ![w] =
                                IF ~StartsWith(Head(workload).path, args.input) THEN "panic"
                                ELSE IF args.dedup THEN "dedup"
                                ELSE "compress"]
    /\ UNCHANGED <<args, mutex, chunk_infos, offset, entries, already_well_known_hashes,
                   deduped_file_entries, hash_to_offsets, outdatfile, main_pc, joined,
                   ees, outidxfile>>
    /\ UNCHANGED <<files, ixVars, splitVars, plVars>>

\* line 255: already_well_known_hashes.lock()
LockKnownHashes(w) ==
    /\ pc[w] = "dedup"
    /\ mutex["already_well_known_hashes"] = 0
    /\ mutex' = Lock("already_well_known_hashes", w)
    /\ pc' = [pc EXCEPT ![w] = "known_locked"]
    /\ UNCHANGED <<args, workload, file, chunk_infos, offset, entries,
                   already_well_known_hashes, deduped_file_entries, hash_to_offsets,
                   outdatfile, main_pc, joined, ees, outidxfile>>
    /\ UNCHANGED <<files, ixVars, splitVars, plVars>>

\* InsertKnownHash without line 267: the hash is not inserted
InsertKnownHash_Forgets(w) ==
    /\ pc[w] = "known_locked"
    /\ Sha256(file[w].content) \notin already_well_known_hashes
    /\ mutex' = Unlock("already_well_known_hashes")
    /\ pc' = [pc EXCEPT ![w] = "compress"]
    /\ UNCHANGED <<args, workload, file, chunk_infos, offset, entries,
                   already_well_known_hashes, deduped_file_entries, hash_to_offsets,
                   outdatfile, main_pc, joined, ees, outidxfile>>
    /\ UNCHANGED <<files, ixVars, splitVars, plVars>>

\* the hash is not yet known (line 267): insert it, the guard is dropped
InsertKnownHash(w) ==
    /\ pc[w] = "known_locked"
    /\ Sha256(file[w].content) \notin already_well_known_hashes
    /\ already_well_known_hashes' = already_well_known_hashes \cup {Sha256(file[w].content)}
    /\ mutex' = Unlock("already_well_known_hashes")
    /\ pc' = [pc EXCEPT ![w] = "compress"]
    /\ UNCHANGED <<args, workload, file, chunk_infos, offset, entries,
                   deduped_file_entries, hash_to_offsets, outdatfile, main_pc, joined,
                   ees, outidxfile>>
    /\ UNCHANGED <<files, ixVars, splitVars, plVars>>

\* the hash is known (lines 256-258): deduped_file_entries.lock()
LockDeduped(w) ==
    /\ pc[w] = "known_locked"
    /\ Sha256(file[w].content) \in already_well_known_hashes
    /\ mutex["deduped_file_entries"] = 0
    /\ mutex' = Lock("deduped_file_entries", w)
    /\ pc' = [pc EXCEPT ![w] = "deduped_locked"]
    /\ UNCHANGED <<args, workload, file, chunk_infos, offset, entries,
                   already_well_known_hashes, deduped_file_entries, hash_to_offsets,
                   outdatfile, main_pc, joined, ees, outidxfile>>
    /\ UNCHANGED <<files, ixVars, splitVars, plVars>>

\* lines 259-265: push the PartialFileInfo, continue (both guards are dropped)
PushDeduped(w) ==
    /\ pc[w] = "deduped_locked"
    /\ deduped_file_entries' = Append(deduped_file_entries,
          [path |-> SubSeq(file[w].path, Len(args.input) + 1, Len(file[w].path)),
           modified_time |-> Some([seconds |-> file[w].mtime, nanos |-> 0]),
           original_crc32 |-> Crc32(file[w].content),
           original_sha256 |-> Sha256(file[w].content)])
    /\ mutex' = [mutex EXCEPT !["deduped_file_entries"] = 0,
                              !["already_well_known_hashes"] = 0]
    /\ file' = [file EXCEPT ![w] = NoFile]
    /\ pc' = [pc EXCEPT ![w] = "pop"]
    /\ UNCHANGED <<args, workload, chunk_infos, offset, entries,
                   already_well_known_hashes, hash_to_offsets, outdatfile, main_pc,
                   joined, ees, outidxfile>>
    /\ UNCHANGED <<files, ixVars, splitVars, plVars>>

\* line 270 for a body of at most 8 MiB: compress_file takes no lock
CompressSingle(w) ==
    /\ pc[w] = "compress"
    /\ Contents[file[w].content].size <= SINGLE_CHUNK_LIMIT
    /\ chunk_infos' = [chunk_infos EXCEPT ![w] = ChunkInfos(CompressFile(file[w].content))]
    /\ pc' = [pc EXCEPT ![w] = "commit"]
    /\ UNCHANGED <<args, workload, mutex, file, offset, entries, already_well_known_hashes,
                   deduped_file_entries, hash_to_offsets, outdatfile, main_pc, joined,
                   ees, outidxfile>>
    /\ UNCHANGED <<files, ixVars, splitVars, plVars>>

\* LockRayon that does not wait for the lock to be free
LockRayon_NoWait(w) ==
    /\ pc[w] = "compress"
    /\ Contents[file[w].content].size > SINGLE_CHUNK_LIMIT
    /\ mutex' = Lock("RAYON_LOCK", w)
    /\ pc' = [pc EXCEPT ![w] = "rayon_locked"]
    /\ UNCHANGED <<args, workload, file, chunk_infos, offset, entries,
                   already_well_known_hashes, deduped_file_entries, hash_to_offsets,
                   outdatfile, main_pc, joined, ees, outidxfile>>
    /\ UNCHANGED <<files, ixVars, splitVars, plVars>>

\* line 118: RAYON_LOCK.lock() of compress_file, for a larger body
LockRayon(w) ==
    /\ pc[w] = "compress"
    /\ Contents[file[w].content].size > SINGLE_CHUNK_LIMIT
    /\ mutex["RAYON_LOCK"] = 0
    /\ mutex' = Lock("RAYON_LOCK", w)
    /\ pc' = [pc EXCEPT ![w] = "rayon_locked"]
    /\ UNCHANGED <<args, workload, file, chunk_infos, offset, entries,
                   already_well_known_hashes, deduped_file_entries, hash_to_offsets,
                   outdatfile, main_pc, joined, ees, outidxfile>>
    /\ UNCHANGED <<files, ixVars, splitVars, plVars>>

\* lines 121-163: the chunks are compressed in parallel, then drop(lock)
CompressChunked(w) ==
    /\ pc[w] = "rayon_locked"
    /\ chunk_infos' = [chunk_infos EXCEPT ![w] = ChunkInfos(CompressFile(file[w].content))]
    /\ mutex' = Unlock("RAYON_LOCK")
    /\ pc' = [pc EXCEPT ![w] = "commit"]
    /\ UNCHANGED <<args, workload, file, offset, entries, already_well_known_hashes,
                   deduped_file_entries, hash_to_offsets, outdatfile, main_pc, joined,
                   ees, outidxfile>>
    /\ UNCHANGED <<files, ixVars, splitVars, plVars>>

\* line 287: hash_to_offsets.lock()
LockHashToOffsets(w) ==
    /\ pc[w] = "commit"
    /\ mutex["hash_to_offsets"] = 0
    /\ mutex' = Lock("hash_to_offsets", w)
    /\ pc' = [pc EXCEPT ![w] = "table_locked"]
    /\ UNCHANGED <<args, workload, file, chunk_infos, offset, entries,
                   already_well_known_hashes, deduped_file_entries, hash_to_offsets,
                   outdatfile, main_pc, joined, ees, outidxfile>>
    /\ UNCHANGED <<files, ixVars, splitVars, plVars>>

\* line 305: outdatfile.lock()
LockOutDatFile(w) ==
    /\ pc[w] = "table_locked"
    /\ mutex["outdatfile"] = 0
    /\ mutex' = Lock("outdatfile", w)
    /\ pc' = [pc EXCEPT ![w] = "dat_locked"]
    /\ UNCHANGED <<args, workload, file, chunk_infos, offset, entries,
                   already_well_known_hashes, deduped_file_entries, hash_to_offsets,
                   outdatfile, main_pc, joined, ees, outidxfile>>
    /\ UNCHANGED <<files, ixVars, splitVars, plVars>>

\* lines 306-310: seek to the end, write_all(compressed), the guard is dropped
WriteBody(w) ==
    /\ pc[w] = "dat_locked"
    /\ offset' = [offset EXCEPT ![w] = DatLen(outdatfile)]
    /\ outdatfile' = Append(outdatfile,
          [at |-> DatLen(outdatfile), sha |-> Sha256(file[w].content),
           len |-> CompressedLen(chunk_infos[w])])
    /\ mutex' = Unlock("outdatfile")
    /\ pc' = [pc EXCEPT ![w] = "written"]
    /\ UNCHANGED <<args, workload, file, chunk_infos, entries, already_well_known_hashes,
                   deduped_file_entries, hash_to_offsets, main_pc, joined, ees, outidxfile>>
    /\ UNCHANGED <<files, ixVars, splitVars, plVars>>

\* Insert that leaves the table as it was
Insert_Lost(map, key, entry) == map

\* hash_to_offsets.insert(key, entry)
Insert(map, key, entry) ==
    [k \in DOMAIN map \cup {key} |-> IF k = key THEN entry ELSE map[k]]

\* lines 312-326: build the entry, insert it in the dedup table under --dedup,
\* drop the table's guard, entries.push(entry); the locals of the iteration
\* (file, chunk_infos, offset) end with it
CommitEntry(w) ==
    /\ pc[w] = "written"
    /\ LET entry == NewFileEntry(file[w], chunk_infos[w], offset[w]) IN
          /\ hash_to_offsets' = IF args.dedup
                                THEN Insert(hash_to_offsets, entry.info[1].original_sha256, entry)
                                ELSE hash_to_offsets
          /\ entries' = [entries EXCEPT ![w] = Append(entries[w], entry)]
    /\ mutex' = Unlock("hash_to_offsets")
    /\ file' = [file EXCEPT ![w] = NoFile]
    /\ chunk_infos' = [chunk_infos EXCEPT ![w] = <<>>]
    /\ offset' = [offset EXCEPT ![w] = 0]
    /\ pc' = [pc EXCEPT ![w] = "pop"]
    /\ UNCHANGED <<args, workload, already_well_known_hashes,
                   deduped_file_entries, outdatfile, main_pc, joined, ees, outidxfile>>
    /\ UNCHANGED <<files, ixVars, splitVars, plVars>>

\* lines 337-350: thread.join().unwrap() of the next thread, its entries are
\* moved to ees
JoinThread ==
    /\ main_pc = "join"
    /\ joined < args.jobs
    /\ pc[joined + 1] \in {"exit", "panic"}
    /\ IF pc[joined + 1] = "panic"
       THEN main_pc' = "panic" /\ UNCHANGED <<joined, ees, entries>>
       ELSE /\ joined' = joined + 1
            /\ ees' = ees \o entries[joined + 1]
            /\ entries' = [entries EXCEPT ![joined + 1] = <<>>]
            /\ UNCHANGED main_pc
    /\ UNCHANGED <<args, workload, mutex, pc, file, chunk_infos, offset,
                   already_well_known_hashes, deduped_file_entries, hash_to_offsets,
                   outdatfile, outidxfile>>
    /\ UNCHANGED <<files, ixVars, splitVars, plVars>>

EntryPathLess(a, b) == LexLess(a.info[1].path, b.info[1].path)

\* DedupedEntry without `..dedup_target`: the body range is left at its default
DedupedEntry_OwnBody(e, dedup_target) ==
    [dedup_target EXCEPT
        !.info = Some([dedup_target.info[1] EXCEPT
                          !.path = e.path, !.modified_time = e.modified_time]),
        !.body_offset = 0, !.body_size = 0]

\* the FileEntry pushed for a PartialFileInfo e (lines 357-364)
DedupedEntry(e, dedup_target) ==
    [dedup_target EXCEPT
        !.info = Some([dedup_target.info[1] EXCEPT
                          !.path = e.path, !.modified_time = e.modified_time])]

\* SortEntries without the sort
SortEntries_Unsorted(es) == es

\* ees.sort_by(path) (line 370)
SortEntries(es) == StableSort(es, EntryPathLess)

\* lines 352-374: resolve the deduped entries against the dedup table, sort by
\* path, write the index.  A hash missing from the table, or a failed
\* assertion, is a panic.
Finalize ==
    /\ main_pc = "join"
    /\ joined = args.jobs
    /\ mutex["hash_to_offsets"] = 0 /\ mutex["deduped_file_entries"] = 0
    /\ LET pending == deduped_file_entries
           found == \A k \in 1..Len(pending) :
                       /\ pending[k].original_sha256 \in DOMAIN hash_to_offsets
                       /\ hash_to_offsets[pending[k].original_sha256].info[1].original_sha256
                             = pending[k].original_sha256
                       /\ hash_to_offsets[pending[k].original_sha256].info[1].original_crc32
                             = pending[k].original_crc32
           resolved == [k \in 1..Len(pending) |->
                          DedupedEntry(pending[k], hash_to_offsets[pending[k].original_sha256])]
       IN  IF found
           THEN /\ ees' = SortEntries(ees \o resolved)
                /\ outidxfile' = WriteIndexFile([entries |-> ees'])
                /\ deduped_file_entries' = <<>>
                /\ main_pc' = "done"
           ELSE /\ main_pc' = "panic"
                /\ UNCHANGED <<ees, outidxfile, deduped_file_entries>>
    /\ UNCHANGED <<args, workload, mutex, pc, file, chunk_infos, offset, entries,
                   already_well_known_hashes, hash_to_offsets, outdatfile, joined>>
    /\ UNCHANGED <<files, ixVars, splitVars, plVars>>

(***************************************************************************)
(* cmd/split.rs                                                            *)
(***************************************************************************)

Reverse(s) == [k \in 1..Len(s) |-> s[Len(s) + 1 - k]]

\* ChunkedFile::new
NewChunkedFile == [entries |-> <<>>, well_known_hashes |-> {}, size |-> 0]

\* Add that drops an entry whose hash the shard knows
Add_SkipsKnown(self, entry) ==
    IF entry.info[1].original_sha256 \notin self.well_known_hashes
    THEN [entries |-> Append(self.entries, entry),
          well_known_hashes |-> self.well_known_hashes \cup {entry.info[1].original_sha256},
          size |-> self.size + CompressedLen(entry.info[1].chunks)]
    ELSE self

\* Add without the well_known_hashes test: every entry counts
Add_CountsAgain(self, entry) ==
    [entries |-> Append(self.entries, entry),
     well_known_hashes |-> self.well_known_hashes \cup {entry.info[1].original_sha256},
     size |-> self.size + CompressedLen(entry.info[1].chunks)]

\* ChunkedFile::add
Add(self, entry) ==
    IF entry.info[1].original_sha256 \notin self.well_known_hashes
    THEN [entries |-> Append(self.entries, entry),
          well_known_hashes |-> self.well_known_hashes \cup {entry.info[1].original_sha256},
          size |-> self.size + CompressedLen(entry.info[1].chunks)]
    ELSE [self EXCEPT !.entries = Append(self.entries, entry)]

\* the sort key of an entry (lines 56-59): a chunk counts its compressed
\* length, or its original length when that is zero
Weight(e) ==
    Sum([k \in 1..Len(e.info[1].chunks) |->
            IF e.info[1].chunks[k].compressed_length = 0
            THEN e.info[1].chunks[k].original_length
            ELSE e.info[1].chunks[k].compressed_length])

WeightLess(a, b) == Weight(a) < Weight(b)

\* lines 54-61: sort_by_cached_key ascending, then reverse
SortBySize(es) == Reverse(StableSort(es, WeightLess))

\* MinIndex that never leaves the first shard
MinIndex_First(shards) == 0

\* lines 81-88: the index (from 0) of the first shard of least size
MinIndex(shards) ==
    IF shards = <<>> THEN 0
    ELSE (CHOOSE k \in 1..Len(shards) :
             /\ \A m \in 1..Len(shards) : shards[k].size <= shards[m].size
             /\ \A m \in 1..(k - 1) : shards[m].size > shards[k].size) - 1

\* ---- the input archives ---------------------------------------------------

MaxSplitEntries == 4
MaxCount == 3

\* the bodies of the input archives: hash number -> chunks
SplitBodies ==
    << <<IxChunk(3, Zstandard, 8)>>,
       <<IxChunk(2, Lz4, 4), IxChunk(1, Passthrough, 1)>>,
       <<IxChunk(1, Passthrough, 1)>>,
       <<IxChunk(0, Passthrough, 0)>>,
       <<IxChunk(2, Zstandard, 9), IxChunk(3, Passthrough, 3)>>,
       \* a chunk with no stored bytes: the sort key counts its original length
       <<IxChunk(0, Passthrough, 2)>> >>

\* the files of the input archives: relative path and hash number
SplitUniverse ==
    { [path |-> <<47, 97>>, sha |-> 1],
      [path |-> <<47, 98>>, sha |-> 2],
      [path |-> <<47, 99>>, sha |-> 1],
      [path |-> <<47, 100>>, sha |-> 3],
      [path |-> <<47, 101>>, sha |-> 5],
      [path |-> <<47, 102>>, sha |-> 4],
      [path |-> <<47, 103>>, sha |-> 3],
      [path |-> <<47, 104>>, sha |-> 6] }

\* the bytes of a body in a .dat file
BodyBytes(sha) ==
    [k \in 1..CompressedLen(SplitBodies[sha]) |-> 16 * sha + k]

\* The archive `create` leaves for the files fs (a sequence, in the order
\* their bodies reached the .dat file): with dedup a body is stored once.
RECURSIVE Archive(_, _)
Archive(fs, dedup) ==
    IF fs = <<>> THEN [entries |-> <<>>, dat |-> <<>>]
    ELSE With(Archive(SubSeq(fs, 1, Len(fs) - 1), dedup), LAMBDA before :
         LET f == fs[Len(fs)]
             same == {k \in 1..Len(before.entries) :
                         before.entries[k].info[1].original_sha256 = <<f.sha>>}
             shared == dedup /\ same # {}
             off == IF shared THEN before.entries[CHOOSE k \in same : TRUE].body_offset
                    ELSE Len(before.dat)
         IN  [entries |-> Append(before.entries,
                 IxEntry(IxInfo(f.path, SplitBodies[f.sha], f.sha,
                                Some([seconds |-> 7, nanos |-> 0])),
                         off, CompressedLen(SplitBodies[f.sha]))),
              dat |-> IF shared THEN before.dat ELSE before.dat \o BodyBytes(f.sha)])

SplitPathLess(f, g) == LexLess(f.path, g.path)

SplitInit ==
    /\ split_args \in [count : 0..MaxCount]
    /\ \E fs \in SUBSET SplitUniverse, dedup \in BOOLEAN, backwards \in BOOLEAN :
          /\ Cardinality(fs) <= MaxSplitEntries
          /\ LET some == CHOOSE q \in [1..Cardinality(fs) -> fs] :
                             \A a, b \in 1..Cardinality(fs) : a # b => q[a] # q[b]
                 order == IF backwards THEN Reverse(StableSort(some, SplitPathLess))
                          ELSE StableSort(some, SplitPathLess)
                 archive == Archive(order, dedup)
             IN  /\ src_idx = WriteIndexFile([entries |-> SortEntries(archive.entries)])
                 /\ src_dat = archive.dat
    /\ split_pc = "parse"
    /\ split_entries = <<>>
    /\ already_well_known_hahes = <<>>
    /\ output_files = <<>>
    /\ all_size = 0
    /\ shard_no = 0
    /\ in_pos = 0
    /\ well_known_hashes = <<>>
    /\ out_entries = <<>>
    /\ datfile = <<>>
    /\ shard_idx = <<>>
    /\ shard_dat = <<>>

\* lines 51-70: parse the index, sort the entries by size, make the shards
ParseAndSort ==
    /\ split_pc = "parse"
    /\ LET parsed == ParseIndexFile(src_idx) IN
          IF ~parsed.ok
          THEN split_pc' = "panic" /\ UNCHANGED <<split_entries, output_files>>
          ELSE /\ split_entries' = SortBySize(parsed.file.entries)
               /\ output_files' = [k \in 1..split_args.count |-> NewChunkedFile]
               /\ split_pc' = IF parsed.file.entries # <<>> THEN "pack"
                              ELSE IF split_args.count = 0 THEN "done"
                              ELSE "shard"
    /\ UNCHANGED <<split_args, src_idx, src_dat, already_well_known_hahes, all_size,
                   shard_no, in_pos, well_known_hashes, out_entries, datfile,
                   shard_idx, shard_dat>>
    /\ UNCHANGED <<ixVars, createVars, plVars>>

\* lines 72-91: one turn of the bin-packing loop
PlaceEntry ==
    /\ split_pc = "pack"
    /\ LET entry == Head(split_entries)
           hash == entry.info[1].original_sha256
           index == IF hash \in DOMAIN already_well_known_hahes
                    THEN already_well_known_hahes[hash]
                    ELSE MinIndex(output_files)
       IN  IF index + 1 > Len(output_files)
           THEN \* output_files[min_index]: index out of bounds
                /\ split_pc' = "panic"
                /\ UNCHANGED <<split_entries, output_files, already_well_known_hahes>>
           ELSE /\ output_files' = [output_files EXCEPT ![index + 1] = Add(@, entry)]
                /\ already_well_known_hahes' =
                      IF hash \in DOMAIN already_well_known_hahes
                      THEN already_well_known_hahes
                      ELSE Insert(already_well_known_hahes, hash, index)
                /\ split_entries' = Tail(split_entries)
                /\ split_pc' = IF Tail(split_entries) = <<>> THEN "shard" ELSE "pack"
    /\ UNCHANGED <<split_args, src_idx, src_dat, all_size, shard_no, in_pos,
                   well_known_hashes, out_entries, datfile, shard_idx, shard_dat>>
    /\ UNCHANGED <<ixVars, createVars, plVars>>

\* the ChunkedFile the loop of line 95 visits as number i: the shards are
\* visited last to first
ShardFile(i) == Len(output_files) - i

\* lines 95-113: open the shard's files, file.entries.reverse()
BeginShard ==
    /\ split_pc = "shard"
    /\ all_size' = all_size + output_files[ShardFile(shard_no)].size
    /\ output_files' = [output_files EXCEPT ![ShardFile(shard_no)].entries = Reverse(@)]
    /\ in_pos' = 0
    /\ well_known_hashes' = <<>>
    /\ out_entries' = <<>>
    /\ datfile' = <<>>
    /\ split_pc' = "entries"
    /\ UNCHANGED <<split_args, src_idx, src_dat, split_entries, already_well_known_hahes,
                   shard_no, shard_idx, shard_dat>>
    /\ UNCHANGED <<ixVars, createVars, plVars>>

\* CopyBody without the seek of line 131: the source is read from its start
CopyBody_NoSeek(in_entry, written) == SubSeq(src_dat, 1, written)

\* lines 130-138: seek the source .dat to the entry's body_offset, then read
\* each chunk's compressed_length bytes and write them to the shard's .dat
CopyBody(in_entry, written) ==
    SubSeq(src_dat, in_entry.body_offset + 1, in_entry.body_offset + written)

\* lines 115-155: one turn of the loop over the shard's entries
WriteEntry ==
    /\ split_pc = "entries"
    /\ in_pos < Len(output_files[ShardFile(shard_no)].entries)
    /\ LET in_entry == output_files[ShardFile(shard_no)].entries[in_pos + 1]
           info == in_entry.info[1]
           current_offset == Len(datfile)
           written == CompressedLen(info.chunks)
           eof == written > 0 /\ in_entry.body_offset + written > Len(src_dat)
       IN  IF info.original_sha256 \in DOMAIN well_known_hashes
           THEN /\ out_entries' = Append(out_entries,
                      [info |-> Some(info), file_index |-> 0,
                       body_offset |-> well_known_hashes[info.original_sha256],
                       body_size |-> in_entry.body_size])
                /\ in_pos' = in_pos + 1
                /\ UNCHANGED <<datfile, well_known_hashes, split_pc>>
           ELSE IF eof \/ in_entry.body_size # written
           THEN \* read_exact fails, or assert_eq!(in_entry.body_size, written)
                /\ split_pc' = "panic"
                /\ UNCHANGED <<out_entries, in_pos, datfile, well_known_hashes>>
           ELSE /\ datfile' = datfile \o CopyBody(in_entry, written)
                /\ out_entries' = Append(out_entries,
                      [info |-> Some(info), file_index |-> 0,
                       body_offset |-> current_offset, body_size |-> written])
                /\ well_known_hashes' =
                      Insert(well_known_hashes, info.original_sha256, current_offset)
                /\ in_pos' = in_pos + 1
                /\ UNCHANGED split_pc
    /\ UNCHANGED <<split_args, src_idx, src_dat, split_entries, already_well_known_hahes,
                   output_files, all_size, shard_no, shard_idx, shard_dat>>
    /\ UNCHANGED <<ixVars, createVars, plVars>>

\* line 157: write the shard's index; the loop goes on with the next shard
WriteShardIndex ==
    /\ split_pc = "entries"
    /\ in_pos = Len(output_files[ShardFile(shard_no)].entries)
    /\ shard_idx' = Append(shard_idx, WriteIndexFile([entries |-> out_entries]))
    /\ shard_dat' = Append(shard_dat, datfile)
    /\ shard_no' = shard_no + 1
    /\ split_pc' = IF shard_no + 1 = split_args.count THEN "done" ELSE "shard"
    /\ UNCHANGED <<split_args, src_idx, src_dat, split_entries, already_well_known_hahes,
                   output_files, all_size, in_pos, well_known_hashes, out_entries, datfile>>
    /\ UNCHANGED <<ixVars, createVars, plVars>>

(***************************************************************************)
(* The specifications                                                      *)
(***************************************************************************)

IxAtRest ==
    /\ ix_pc = "rest"
    /\ ix_file = [entries |-> <<>>]
    /\ ix_output = <<>>
    /\ ix_parsed = Panic

CreateAtRest ==
    /\ args = [input |-> INPUT, jobs |-> 0, dedup |-> FALSE]
    /\ files = <<>>
    /\ workload = <<>>
    /\ mutex = [m \in MutexNames |-> 0]
    /\ pc = <<>>
    /\ file = <<>>
    /\ chunk_infos = <<>>
    /\ offset = <<>>
    /\ entries = <<>>
    /\ already_well_known_hashes = {}
    /\ deduped_file_entries = <<>>
    /\ hash_to_offsets = <<>>
    /\ outdatfile = <<>>
    /\ main_pc = "rest"
    /\ joined = 0
    /\ ees = <<>>
    /\ outidxfile = <<>>

SplitAtRest ==
    /\ split_args = [count |-> 0]
    /\ src_idx = <<>>
    /\ src_dat = <<>>
    /\ split_pc = "rest"
    /\ split_entries = <<>>
    /\ already_well_known_hahes = <<>>
    /\ output_files = <<>>
    /\ all_size = 0
    /\ shard_no = 0
    /\ in_pos = 0
    /\ well_known_hashes = <<>>
    /\ out_entries = <<>>
    /\ datfile = <<>>
    /\ shard_idx = <<>>
    /\ shard_dat = <<>>

PlannerAtRest ==
    /\ pl_pc = "rest"
    /\ pl_input = 0
    /\ pl_sources = <<>>
    /\ pl_done = <<>>
    /\ pl_lock = FALSE
    /\ pl_chunks = <<>>

(***************************************************************************)
(* SpecIndex: write_index_file followed by parse_index_file on what it     *)
(* wrote, for every FileIndexFile of a bounded family.                     *)
(***************************************************************************)

MaxIndexEntries == 2

\* the entries the index files of SpecIndex are made of
IxEntryPool ==
    { IxEntry(IxInfo(<<47, 97>>, <<IxChunk(51, Lz4, 100)>>, 1,
                     Some([seconds |-> 1700000000, nanos |-> 5])), 0, 51),
      IxEntry(IxInfo(<<47, 98>>, <<IxChunk(200, Zstandard, 524288), IxChunk(7, Passthrough, 7)>>, 2,
                     Some([seconds |-> 3, nanos |-> 0])), 51, 207),
      IxEntry(IxInfo(<<47, 98>>, <<IxChunk(51, Lz4, 100)>>, 1,
                     Some([seconds |-> 0, nanos |-> 0])), 0, 51),
      IxEntry(IxInfo(<<47, 100, 47, 101>>, <<IxChunk(0, Passthrough, 0)>>, 3, None), 8388613, 0),
      IxEntry(IxInfo(<<47, 99>>, <<>>, 4, Some([seconds |-> 128, nanos |-> 999999999])), 207, 16384),
      IxEntry(IxInfo(<<>>, <<>>, 0, None), 0, 0) }

IxFiles ==
    { [entries |-> s] : s \in UNION { [1..n -> IxEntryPool] : n \in 0..MaxIndexEntries } }

IxInit ==
    /\ ix_pc = "write"
    /\ ix_file \in IxFiles
    /\ ix_output = <<>>
    /\ ix_parsed = Panic
    /\ CreateAtRest
    /\ SplitAtRest
    /\ PlannerAtRest

IxWrite ==
    /\ ix_pc = "write"
    /\ ix_output' = WriteIndexFile(ix_file)
    /\ ix_pc' = "parse"
    /\ UNCHANGED <<ix_file, ix_parsed, createVars, splitVars, plVars>>

IxParse ==
    /\ ix_pc = "parse"
    /\ ix_parsed' = ParseIndexFile(ix_output)
    /\ ix_pc' = "done"
    /\ UNCHANGED <<ix_file, ix_output, createVars, splitVars, plVars>>

IxNext == IxWrite \/ IxParse

SpecIndex == IxInit /\ [][IxNext]_vars

\* C10: parse_index_file(write_index_file(F)) returns F, and what was written
\* is the magic "MARI", the big-endian compressed length, the big-endian raw
\* (schema-encoded) length and the compressed payload, in this order.
C10_RoundTrip ==
    /\ ix_pc # "write" =>
          /\ SubSeq(ix_output, 1, 4) = <<77, 65, 82, 73>>
          /\ FromBeBytes(SubSeq(ix_output, 5, 8)) = Len(ix_output) - 12
          /\ FromBeBytes(SubSeq(ix_output, 9, 12)) = Len(EncodeToVec(ix_file))
          /\ SubSeq(ix_output, 13, Len(ix_output)) = ZstdEncodeAll(EncodeToVec(ix_file))
    /\ ix_pc = "done" => ix_parsed.ok /\ ix_parsed.file = ix_file

C10_Witness ==
    /\ ix_pc = "done"
    /\ ix_parsed.ok
    /\ Len(ix_file.entries) = 2
    /\ ix_file.entries[1] # ix_file.entries[2]


(***************************************************************************)
(* SpecCreate: a run of `create` on every input tree of a bounded family,  *)
(* with and without --dedup, in every interleaving of the workers.         *)
(***************************************************************************)

(***************************************************************************)
(* SpecParse: parse_index_file on the files write_index_file produces and  *)
(* on damaged copies of them.                                              *)
(***************************************************************************)

Damages ==
    {"none", "magic", "empty", "header", "cut", "longer", "shorter",
     "raw_longer", "frame", "message"}

\* a copy of the index file `bytes` with one damage
Damaged(bytes, damage) ==
    With(bytes, LAMBDA b :
        LET payload == SubSeq(b, 13, Len(b))
            compressed_len == FromBeBytes(SubSeq(b, 5, 8))
            raw_len == FromBeBytes(SubSeq(b, 9, 12))
        IN  CASE damage = "none" -> b
              [] damage = "magic" -> <<77, 65, 82, 74>> \o SubSeq(b, 5, Len(b))
              [] damage = "empty" -> <<>>
              [] damage = "header" -> SubSeq(b, 1, 8)
              \* the last byte of the file is missing
              [] damage = "cut" -> SubSeq(b, 1, Len(b) - 1)
              \* compressed_length says one byte more than the file holds
              [] damage = "longer" ->
                    SubSeq(b, 1, 4) \o ToBeBytes(compressed_len + 1) \o SubSeq(b, 9, Len(b))
              [] damage = "shorter" ->
                    SubSeq(b, 1, 4) \o ToBeBytes(compressed_len - 1) \o SubSeq(b, 9, Len(b))
              [] damage = "raw_longer" ->
                    SubSeq(b, 1, 8) \o ToBeBytes(raw_len + 1) \o payload
              \* the payload is not a Zstandard frame
              [] damage = "frame" -> SubSeq(b, 1, 12) \o <<41>> \o Tail(payload)
              \* the frame holds a field of wire type 7, which no message has
              [] damage = "message" ->
                    SubSeq(b, 1, 4) \o ToBeBytes(compressed_len + 1)
                        \o ToBeBytes(raw_len + 1) \o payload \o <<15>>)

ParseInit ==
    /\ ix_pc = "parse"
    /\ ix_file \in IxFiles
    /\ \E damage \in Damages : ix_output = Damaged(WriteIndexFile(ix_file), damage)
    /\ ix_parsed = Panic
    /\ CreateAtRest
    /\ SplitAtRest
    /\ PlannerAtRest

SpecParse == ParseInit /\ [][IxParse]_vars

\* the first 4 bytes of the input are not "MARI"
BadMagic(input) == Len(input) < 4 \/ SubSeq(input, 1, 4) # INDEX_MAGIC

\* the payload bytes the input holds after its 12 bytes of header
Payload(input) == SubSeq(input, 13, Len(input))

\* fewer than compressed_length payload bytes are available
ShortPayload(input) ==
    \/ Len(input) < 12
    \/ Len(Payload(input)) < FromBeBytes(SubSeq(input, 5, 8))

\* the first compressed_length bytes of the payload, or all of it if it is
\* shorter
Taken(input) ==
    LET compressed_len == FromBeBytes(SubSeq(input, 5, 8))
    IN  IF Len(Payload(input)) < compressed_len THEN Payload(input)
        ELSE SubSeq(input, 13, 12 + compressed_len)

\* the compressed_length payload bytes do not decode, as a Zstandard frame
\* or as the schema message
Undecodable(input) ==
    Len(input) >= 12 /\
    LET raw == ZstdDecodeAll(Taken(input))
    IN  ~raw.ok \/ ~Decode(raw.val).ok

\* the decoded length differs from raw_length
RawLengthDiffers(input) ==
    Len(input) >= 12 /\
    LET raw == ZstdDecodeAll(Taken(input))
    IN  raw.ok /\ Len(raw.val) # FromBeBytes(SubSeq(input, 9, 12))

\* C12, as claimed: parse_index_file returns no index when the first 4 bytes
\* are not "MARI", when fewer than compressed_length payload bytes are
\* available, when the payload does not decode, or when the decoded length
\* differs from raw_length.
C12_MalformedInputIsFatal ==
    ix_pc = "done" =>
        With(ix_output, LAMBDA input :
            (\/ BadMagic(input)
             \/ ShortPayload(input)
             \/ Undecodable(input)
             \/ RawLengthDiffers(input)) => ~ix_parsed.ok)

CreateStart == CreateInit /\ IxAtRest /\ SplitAtRest /\ PlannerAtRest

CreateNext ==
    \/ \E w \in Workers : PopFront(w)
    \/ \E w \in Workers : LockKnownHashes(w)
    \/ \E w \in Workers : InsertKnownHash(w)
    \/ \E w \in Workers : LockDeduped(w)
    \/ \E w \in Workers : PushDeduped(w)
    \/ \E w \in Workers : CompressSingle(w)
    \/ \E w \in Workers : LockRayon(w)
    \/ \E w \in Workers : CompressChunked(w)
    \/ \E w \in Workers : LockHashToOffsets(w)
    \/ \E w \in Workers : LockOutDatFile(w)
    \/ \E w \in Workers : WriteBody(w)
    \/ \E w \in Workers : CommitEntry(w)
    \/ JoinThread
    \/ Finalize

SpecCreate == CreateStart /\ [][CreateNext]_vars

\* one step of worker thread w (lines 216-331)
WorkerNext(w) ==
    \/ PopFront(w)
    \/ LockKnownHashes(w)
    \/ InsertKnownHash(w)
    \/ LockDeduped(w)
    \/ PushDeduped(w)
    \/ CompressSingle(w)
    \/ LockRayon(w)
    \/ CompressChunked(w)
    \/ LockHashToOffsets(w)
    \/ LockOutDatFile(w)
    \/ WriteBody(w)
    \/ CommitEntry(w)

\* one step of the main thread (lines 337-374)
MainNext == JoinThread \/ Finalize

\* SpecCreate under a fair scheduler: a thread that can take a step, and
\* stays able to, eventually takes one
SpecCreateFair ==
    /\ CreateStart
    /\ [][CreateNext]_vars
    /\ \A w \in 1..MaxJobs : WF_vars(w \in Workers /\ WorkerNext(w))
    /\ WF_vars(MainNext)

(***************************************************************************)
(* SpecSplit: a run of `split` on every archive of a bounded family.       *)
(***************************************************************************)

SplitStart == SplitInit /\ IxAtRest /\ CreateAtRest /\ PlannerAtRest

SplitNext ==
    \/ ParseAndSort
    \/ PlaceEntry
    \/ BeginShard
    \/ WriteEntry
    \/ WriteShardIndex

SpecSplit == SplitStart /\ [][SplitNext]_vars

(***************************************************************************)
(* Spec: all three programs, each from its own initial states.             *)
(***************************************************************************)

(***************************************************************************)
(* SpecPlanner: one call of compress_file on each of the bodies, the       *)
(* closures of the parallel map finishing in any order.                    *)
(***************************************************************************)
PlannerInit ==
    /\ pl_pc = "start"
    /\ pl_input \in 1..Len(Contents)
    /\ pl_sources = <<>>
    /\ pl_done = <<>>
    /\ pl_lock = FALSE
    /\ pl_chunks = <<>>

PlannerStart == PlannerInit /\ IxAtRest /\ CreateAtRest /\ SplitAtRest

PlannerNext ==
    \/ PlanSingle
    \/ PlanSources
    \/ \E k \in 1..Len(pl_done) : CompressOne(k)
    \/ Collect

SpecPlanner == PlannerStart /\ [][PlannerNext]_vars

Init == IxInit \/ CreateStart \/ SplitStart

Next == IxNext \/ CreateNext \/ SplitNext

Spec == Init /\ [][Next]_vars

(***************************************************************************)
(* The claims about `create`                                               *)
(***************************************************************************)

\* the index `create` wrote, read back from the bytes of the .idx file
IndexWritten == ParseIndexFile(outidxfile).file.entries

RelativePath(f) == SubSeq(f.path, Len(args.input) + 1, Len(f.path))

\* the path ends in "/.DS_Store"
NamedDsStore(path) ==
    /\ Len(path) > 9
    /\ SubSeq(path, Len(path) - 9, Len(path))
          = <<47, 46, 68, 83, 95, 83, 116, 111, 114, 101>>

\* the walked files that are not named .DS_Store
Packed == {k \in 1..Len(files) : ~NamedDsStore(files[k].path)}

FilesWithHash(h) == {k \in Packed : Sha256(files[k].content) = h}

BodiesWithHash(h) == {k \in 1..Len(outdatfile) : outdatfile[k].sha = h}

PendingWithHash(h) ==
    {k \in 1..Len(deduped_file_entries) : deduped_file_entries[k].original_sha256 = h}

WorkersExited == \A w \in Workers : pc[w] = "exit"

\* C1: with --dedup, in every state the .dat file holds at most one body per
\* original_sha256; and once all workers have left their loop, each hash of
\* the input has exactly one body, written by the one file that passed the
\* known-hashes check, and every other file of that hash is in the
\* deduped-pending list.
C1_OneBodyPerHash ==
    args.dedup =>
        /\ \A h \in {Sha256(c) : c \in 1..Len(Contents)} :
              /\ Cardinality(BodiesWithHash(h)) <= 1
              /\ Cardinality(BodiesWithHash(h)) + Cardinality(PendingWithHash(h))
                    <= Cardinality(FilesWithHash(h))
        /\ (args.jobs >= 1 /\ WorkersExited /\ main_pc = "join") =>
              \A h \in {Sha256(files[k].content) : k \in Packed} :
                  /\ Cardinality(BodiesWithHash(h)) = 1
                  /\ Cardinality(PendingWithHash(h)) = Cardinality(FilesWithHash(h)) - 1

C1_Witness ==
    /\ args.dedup /\ args.jobs = 2 /\ WorkersExited /\ main_pc = "join"
    /\ entries[1] # <<>> /\ entries[2] # <<>>
    /\ \E h \in {Sha256(c) : c \in 1..Len(Contents)} :
          Cardinality(PendingWithHash(h)) >= 1 /\ Cardinality(BodiesWithHash(h)) = 1

\* an entry without its path and its modified_time
SharedPart(e) ==
    [e EXCEPT !.info = Some([e.info[1] EXCEPT !.path = <<>>, !.modified_time = None])]

\* C2: in the index written with --dedup, two entries of equal
\* original_sha256 have the same body_offset, the same body_size and the
\* same chunks, and differ in nothing but path and modified_time.
C2_DedupSharesBody ==
    (main_pc = "done" /\ args.dedup) =>
        With(IndexWritten, LAMBDA ix :
            \A i, j \in 1..Len(ix) :
                ix[i].info[1].original_sha256 = ix[j].info[1].original_sha256 =>
                    /\ ix[i].body_offset = ix[j].body_offset
                    /\ ix[i].body_size = ix[j].body_size
                    /\ ix[i].info[1].chunks = ix[j].info[1].chunks
                    /\ SharedPart(ix[i]) = SharedPart(ix[j]))

C2_Witness ==
    /\ main_pc = "done" /\ args.dedup /\ args.jobs = 2
    /\ With(IndexWritten, LAMBDA ix :
          \E i, j \in 1..Len(ix) :
              /\ i # j
              /\ ix[i].info[1].original_sha256 = ix[j].info[1].original_sha256
              /\ ix[i].info[1].path # ix[j].info[1].path
              /\ ix[i].info[1].modified_time # ix[j].info[1].modified_time
              /\ ix[i].body_offset > 0
              /\ Len(ix[i].info[1].chunks) > 1)

\* C3: a run with jobs >= 1 does not panic, and the index it writes has
\* exactly one entry for each walked file not named .DS_Store (with that
\* file's hash) and no other entry.
C3_OneEntryPerFile ==
    args.jobs >= 1 =>
        /\ main_pc # "panic"
        /\ main_pc = "done" =>
              With(IndexWritten, LAMBDA ix :
                  /\ Len(ix) = Cardinality(Packed)
                  /\ \A k \in Packed :
                        Cardinality({i \in 1..Len(ix) :
                            /\ ix[i].info[1].path = RelativePath(files[k])
                            /\ ix[i].info[1].original_sha256 = Sha256(files[k].content)}) = 1
                  /\ \A i \in 1..Len(ix) : ~NamedDsStore(ix[i].info[1].path))

C3_Witness ==
    /\ main_pc = "done" /\ args.jobs = 2 /\ ~args.dedup
    /\ Len(files) = 3 /\ Cardinality(Packed) = 2
    /\ Len(outdatfile) = 2
    /\ Len(IndexWritten) = 2

\* C5: the entries of the index `create` wrote are in ascending byte order
\* of info.path.
C5_IndexSortedByPath ==
    main_pc = "done" =>
        With(IndexWritten, LAMBDA ix :
            \A k \in 1..(Len(ix) - 1) :
                LexLess(ix[k].info[1].path, ix[k + 1].info[1].path))

\* the index is sorted although a later path got its body first, and a
\* deduped entry was appended after the workers' entries
C5_Witness ==
    /\ main_pc = "done" /\ args.dedup /\ args.jobs = 2
    /\ With(IndexWritten, LAMBDA ix :
          /\ Len(ix) = 3
          /\ ix[1].body_offset > ix[3].body_offset
          /\ ix[1].body_offset = ix[2].body_offset)

(***************************************************************************)
(* The claims about `split`                                                *)
(***************************************************************************)

\* the entries of the input index
SplitInput == ParseIndexFile(src_idx).file.entries

\* the entries of the index written for shard number i - 1
ShardEntries(i) == ParseIndexFile(shard_idx[i]).file.entries

AllShardEntries == Concat([i \in 1..Len(shard_idx) |-> ShardEntries(i)])

BodySizeIsSumOfChunks(es) ==
    \A k \in 1..Len(es) : es[k].body_size = CompressedLen(es[k].info[1].chunks)

\* C4: every entry of the index `create` wrote has body_size equal to the
\* sum of its chunks' compressed_length; and so has every entry of every
\* shard index `split` wrote, when the entries of its input index have.
C4_BodySizeIsSumOfChunks ==
    /\ main_pc = "done" => BodySizeIsSumOfChunks(IndexWritten)
    /\ (split_pc # "rest" /\ shard_idx # <<>>) =>
          (BodySizeIsSumOfChunks(SplitInput) => BodySizeIsSumOfChunks(AllShardEntries))

C4_Witness ==
    /\ main_pc = "done" /\ args.dedup
    /\ With(IndexWritten, LAMBDA ix :
          /\ Len(ix) = 3
          /\ \E i \in 1..3 : Len(ix[i].info[1].chunks) > 1 /\ ix[i].body_size > CHUNK_SIZE
          /\ \E i \in 1..3 : ix[i].body_size = 0
          /\ \E i \in 1..3 : ix[i].body_size = 51)

\* C6: when split with count >= 1 is done, it has written count shard
\* indexes, every path of the input index is in exactly one of them, and the
\* entry there has the info of the input entry; split does not panic.
C6_EveryEntryInOneShard ==
    split_args.count >= 1 =>
        /\ split_pc # "panic"
        /\ split_pc = "done" =>
              With(<<SplitInput, AllShardEntries>>, LAMBDA io :
                  /\ Len(shard_idx) = split_args.count
                  /\ Len(io[2]) = Len(io[1])
                  /\ \A k \in 1..Len(io[1]) :
                        /\ Cardinality({i \in 1..Len(io[2]) :
                              io[2][i].info[1].path = io[1][k].info[1].path}) = 1
                        /\ \A i \in 1..Len(io[2]) :
                              io[2][i].info[1].path = io[1][k].info[1].path
                                 => io[2][i].info = io[1][k].info)

C6_Witness ==
    /\ split_pc = "done" /\ split_args.count = 3
    /\ Len(SplitInput) = 4
    /\ Cardinality({i \in 1..3 : ShardEntries(i) # <<>>}) >= 2
    /\ \E i \in 1..3 : Len(ShardEntries(i)) >= 2

\* the entries of a shard that are the first of their hash there
FirstOfHash(es) ==
    {k \in 1..Len(es) :
        \A m \in 1..(k - 1) : es[m].info[1].original_sha256 # es[k].info[1].original_sha256}

\* the bytes one copy of each body of the entries es takes
DistinctBodiesLen(es) ==
    With(es, LAMBDA s :
        Sum([k \in 1..Len(s) |->
                IF k \in FirstOfHash(s) THEN CompressedLen(s[k].info[1].chunks) ELSE 0]))

\* C7: input entries of equal original_sha256 are on the same shard; a
\* shard's running size counts each hash once; in a shard's index the
\* entries of equal hash have the same body_offset, and the shard's .dat
\* file holds one copy of each body.
C7_SameHashSameShard ==
    /\ \A a, b \in 1..Len(output_files) :
          \A i \in 1..Len(output_files[a].entries), j \in 1..Len(output_files[b].entries) :
              output_files[a].entries[i].info[1].original_sha256
                    = output_files[b].entries[j].info[1].original_sha256
                 => a = b
    /\ \A a \in 1..Len(output_files) :
          output_files[a].size = DistinctBodiesLen(output_files[a].entries)
    /\ \A i \in 1..Len(shard_idx) :
          With(ShardEntries(i), LAMBDA es :
              /\ \A x, y \in 1..Len(es) :
                    es[x].info[1].original_sha256 = es[y].info[1].original_sha256
                        => es[x].body_offset = es[y].body_offset
              /\ Len(shard_dat[i]) = DistinctBodiesLen(es))

C7_Witness ==
    /\ split_pc = "done" /\ split_args.count >= 2
    /\ With(SplitInput, LAMBDA in :
          \E x, y \in 1..Len(in) :
              /\ in[x].info[1].original_sha256 = in[y].info[1].original_sha256
              /\ in[x].body_offset # in[y].body_offset)
    /\ \E i \in 1..Len(shard_idx) :
          With(ShardEntries(i), LAMBDA es :
              /\ Len(es) >= 3
              /\ Cardinality(FirstOfHash(es)) < Len(es)
              /\ \E x \in 1..Len(es) : es[x].body_offset > 0)

Max(ns) == CHOOSE n \in ns : \A m \in ns : m <= n

\* C8: after the bin-packing into count >= 1 shards, no shard's running
\* size exceeds total_size / count + the largest weight of an input entry.
C8_LoadBalance ==
    (split_args.count >= 1 /\ split_pc \in {"shard", "entries", "done"}) =>
        With(SplitInput, LAMBDA in :
            LET total_size == Sum([k \in 1..Len(output_files) |-> output_files[k].size])
                largest_entry_size == Max({Weight(in[k]) : k \in 1..Len(in)} \cup {0})
            IN  \A k \in 1..Len(output_files) :
                    output_files[k].size
                        <= total_size \div split_args.count + largest_entry_size)

\* a shard is over the average, so the bound needs the largest entry; the
\* input repeats a hash
C8_Witness ==
    /\ split_pc = "shard" /\ shard_no = 0 /\ split_args.count = 3
    /\ \E k \in 1..3 :
          output_files[k].size >
              Sum([m \in 1..3 |-> output_files[m].size]) \div 3
    /\ \E k \in 1..3 :
          Cardinality(FirstOfHash(output_files[k].entries)) < Len(output_files[k].entries)
    /\ \A k \in 1..3 : output_files[k].size > 0

\* C9, as claimed: the entries of every shard index split wrote are in
\* ascending order of info.path.
C9_ShardIndexSortedByPath ==
    \A i \in 1..Len(shard_idx) :
        With(ShardEntries(i), LAMBDA es :
            \A k \in 1..(Len(es) - 1) :
                ~LexLess(es[k + 1].info[1].path, es[k].info[1].path))



(***************************************************************************)
(* Claims about compress_file (SpecPlanner).                               *)
(***************************************************************************)

\* the size of the body compress_file was called with
PlannedSize == Contents[pl_input].size

\* C11: the chunks compress_file returns partition the body in order: the
\* first chunk starts at 0, chunk k starts where chunk k-1 ends, the
\* original lengths of the chunk_infos add up to the size of the body, a
\* body that comes back as several chunks has none of more than CHUNK_SIZE
\* bytes, and the k-th chunk returned is the one of the k-th stride whatever
\* the order in which the parallel map produced them.
C11_ChunksPartitionBody ==
    pl_pc = "returned" =>
        LET infos == ChunkInfos(pl_chunks)
        IN  /\ Len(pl_chunks) >= 1
            /\ pl_chunks[1].start = 0
            /\ \A k \in 2..Len(pl_chunks) :
                    pl_chunks[k].start
                        = pl_chunks[k - 1].start + pl_chunks[k - 1].original_size
            /\ Sum([k \in 1..Len(infos) |-> infos[k].original_length]) = PlannedSize
            /\ Len(pl_chunks) > 1 =>
                    /\ \A k \in 1..Len(infos) : infos[k].original_length <= CHUNK_SIZE
                    /\ \A k \in 1..Len(pl_chunks) : pl_chunks[k].start = pl_sources[k].i

\* a body of 16 whole strides and 5 bytes more has come back as 17 chunks
C11_Witness ==
    /\ pl_pc = "returned"
    /\ Len(pl_chunks) = 17
    /\ pl_chunks[17].original_size = 5
    /\ pl_chunks[2].compressed_method = Zstandard

(***************************************************************************)
(* Claims about the threads of create (SpecCreate).                        *)
(***************************************************************************)

\* the workers that have inserted hash h in already_well_known_hashes and
\* have not yet committed the entry of its body
HoldersInFlight(h) ==
    { w \in Workers :
        /\ pc[w] \in {"compress", "rayon_locked", "commit", "table_locked",
                      "dat_locked", "written"}
        /\ Sha256(file[w].content) = h }

\* the lookup of line 356 and the assertions of lines 361-362 succeed for
\* the pending record e
Resolves(e) ==
    /\ e.original_sha256 \in DOMAIN hash_to_offsets
    /\ hash_to_offsets[e.original_sha256].info[1].original_sha256 = e.original_sha256
    /\ hash_to_offsets[e.original_sha256].info[1].original_crc32 = e.original_crc32

\* C13: under --dedup every record of the deduped-pending list resolves at
\* finalize: while the workers run, the hash of each pending record is in
\* the dedup table or its first holder is still on its way to commit it;
\* once every thread is joined each record finds its entry with the same
\* sha256 and crc32, so the main thread never panics.
C13_PendingResolvesAtFinalize ==
    args.dedup =>
        /\ main_pc # "panic"
        /\ \A k \in 1..Len(deduped_file_entries) :
              \/ Resolves(deduped_file_entries[k])
              \/ HoldersInFlight(deduped_file_entries[k].original_sha256) # {}
        /\ (main_pc = "join" /\ joined = args.jobs) =>
              \A k \in 1..Len(deduped_file_entries) : Resolves(deduped_file_entries[k])

\* a record was pushed on the pending list while the first holder of its
\* hash has written no body yet and the dedup table is still empty
C13_Witness ==
    /\ args.dedup
    /\ Len(deduped_file_entries) >= 1
    /\ outdatfile = <<>>
    /\ hash_to_offsets = <<>>
    /\ HoldersInFlight(deduped_file_entries[1].original_sha256) # {}

\* a body range [body_offset, body_offset + body_size)
Range(at, len) == [at |-> at, len |-> len]

\* the entries the workers have committed: those still in the workers'
\* lists, those the main thread has taken over at the joins, and the entry
\* a worker is building after its write_all (lines 312-317)
CommittedRanges ==
    LET own(w) == [k \in 1..Len(entries[w]) |->
                      Range(entries[w][k].body_offset, entries[w][k].body_size)]
        building(w) == IF pc[w] = "written"
                       THEN <<Range(offset[w], CompressedLen(chunk_infos[w]))>>
                       ELSE <<>>
    IN  Concat([w \in Workers |-> own(w) \o building(w)])
            \o [k \in 1..Len(ees) |-> Range(ees[k].body_offset, ees[k].body_size)]

\* the ranges of the writes made to the data file, in the order of the writes
WrittenRanges ==
    [k \in 1..Len(outdatfile) |-> Range(outdatfile[k].at, outdatfile[k].len)]

Count(seq, x) == Cardinality({k \in 1..Len(seq) : seq[k] = x})

\* C14: every write to the .dat file starts at the length the file had just
\* before it, so the writes are pairwise disjoint and tile the file from 0
\* to its length (no written byte is written again); and the body ranges
\* of the committed entries are these writes, one entry per write, in every
\* state of every interleaving.  Once the index is written its entries have
\* exactly the ranges of the writes (a deduplicated entry repeats the range
\* of its target).
C14_BodiesTileDatFile ==
    With(WrittenRanges, LAMBDA written :
        /\ \A k \in 1..Len(written) :
              written[k].at = Sum([j \in 1..(k - 1) |-> written[j].len])
        /\ \A j, k \in 1..Len(written) :
              j < k => written[j].at + written[j].len <= written[k].at
        /\ DatLen(outdatfile) = Sum([k \in 1..Len(written) |-> written[k].len])
        /\ main_pc = "join" =>
              With(CommittedRanges, LAMBDA committed :
                  /\ Len(committed) = Len(written)
                  /\ \A k \in 1..Len(written) :
                        Count(committed, written[k]) = Count(written, written[k]))
        /\ main_pc = "done" =>
              With(IndexWritten, LAMBDA index :
                  {Range(index[k].body_offset, index[k].body_size) : k \in 1..Len(index)}
                     = {written[k] : k \in 1..Len(written)}))

\* two workers have written three bodies, one of them empty; the second body
\* of the file was written by the other worker than the first
C14_Witness ==
    /\ args.jobs = 2
    /\ main_pc = "join"
    /\ Len(outdatfile) = 3
    /\ \E k \in 1..3 : outdatfile[k].len = 0
    /\ outdatfile[3].len > 0
    /\ entries[1] # <<>> /\ entries[2] # <<>>
    /\ entries[1][1].body_offset > entries[2][1].body_offset

\* C15: with jobs >= 1 and every thread scheduled fairly, a run of create
\* does not stay blocked on any of its six mutexes: every worker reaches the
\* empty queue and leaves its loop, all mutexes are released, and the main
\* thread writes the index.
C15_CreateTerminates ==
    (args.jobs >= 1) ~>
        (/\ WorkersExited
         /\ workload = <<>>
         /\ \A m \in MutexNames : mutex[m] = 0
         /\ main_pc = "done"
         /\ outidxfile # <<>>)

\* two workers have packed a chunked body, a single-chunk body and a
\* deduplicated file, and the index is written
C15_Witness ==
    /\ args.jobs = 2 /\ args.dedup
    /\ WorkersExited
    /\ main_pc = "done"
    /\ Len(ees) = 3
    /\ Len(outdatfile) = 2
    /\ \E k \in 1..3 : Len(ees[k].info[1].chunks) = 17

\* the workers inside the parallel compression of a chunked body
InsideRayon == {w \in Workers : pc[w] = "rayon_locked"}

\* worker w has a body of more than 8 MiB in hand
HasChunkedBody(w) ==
    file[w] # NoFile /\ Contents[file[w].content].size > SINGLE_CHUNK_LIMIT

\* C16: at most one worker at a time is inside the parallel compression of
\* a chunked body; a worker is inside exactly while it holds RAYON_LOCK;
\* when it has left, every chunk of its body is compressed; and a worker
\* with a body of at most 8 MiB can compress it whoever holds the lock.
C16_OneChunkedFileAtATime ==
    /\ Cardinality(InsideRayon) <= 1
    /\ \A w \in Workers :
          /\ pc[w] = "rayon_locked" <=> mutex["RAYON_LOCK"] = w
          /\ pc[w] = "rayon_locked" => HasChunkedBody(w)
          /\ (HasChunkedBody(w) /\ pc[w] \in {"commit", "table_locked", "dat_locked", "written"}) =>
                Len(chunk_infos[w]) = Len(Sources(Contents[file[w].content].size))
          /\ (pc[w] = "compress" /\ ~HasChunkedBody(w)) => ENABLED CompressSingle(w)

\* worker 1 is inside the parallel compression while worker 2 waits for the
\* lock with another chunked body
C16_Witness ==
    /\ args.jobs = 2
    /\ pc[1] = "rayon_locked"
    /\ pc[2] = "compress" /\ HasChunkedBody(2)
    /\ ~ENABLED LockRayon(2)

\* FileInfo::size of a walked file: the length of its body
FileSize(f) == Contents[f.content].size

\* C17, as claimed: the work queue is in non-increasing order of file size
\* when the workers start and, the workers popping from its head, in every
\* state after.
C17_QueueSortedBySizeDescending ==
    \A k \in 1..(Len(workload) - 1) :
        FileSize(workload[k]) >= FileSize(workload[k + 1])

(***************************************************************************)
(* Claims about the bin-packing and the shard files of split (SpecSplit).  *)
(***************************************************************************)

\* the least running size among the shards
MinSize == CHOOSE n \in {output_files[k].size : k \in 1..Len(output_files)} :
               \A k \in 1..Len(output_files) : n <= output_files[k].size

InEntry == output_files[ShardFile(shard_no)].entries[in_pos + 1]

\* the entries the loop has visited in the shard being written
Visited == SubSeq(output_files[ShardFile(shard_no)].entries, 1, in_pos)

\* C19: while split writes a shard, an entry whose original_sha256 was not
\* yet written in that shard gets body_offset = the length of the shard's
\* .dat before its copy, and exactly body_size bytes, those of the source
\* .dat from the input entry's body_offset on, are appended to the shard's
\* .dat; an entry of a hash already written adds nothing.  When the shard's
\* index is written, the ranges of its distinct bodies tile the shard's .dat
\* in the order they were written, and the length of the .dat is the running
\* size the bin-packing computed for the shard.
C19_ShardDatTiledByBodies ==
    [][/\ (split_pc = "entries" /\ in_pos' = in_pos + 1 /\ split_pc' # "panic") =>
             LET out == out_entries'[Len(out_entries')]
                 fresh == \A k \in 1..Len(Visited) :
                             Visited[k].info[1].original_sha256
                                 # InEntry.info[1].original_sha256
             IN  /\ Len(out_entries') = Len(out_entries) + 1
                 /\ out.info = InEntry.info
                 /\ fresh =>
                       /\ out.body_offset = Len(datfile)
                       /\ out.body_size = InEntry.body_size
                       /\ Len(datfile') = Len(datfile) + InEntry.body_size
                       /\ SubSeq(datfile', 1, Len(datfile)) = datfile
                       /\ SubSeq(datfile', Len(datfile) + 1, Len(datfile'))
                             = SubSeq(src_dat, InEntry.body_offset + 1,
                                      InEntry.body_offset + InEntry.body_size)
                 /\ ~fresh => datfile' = datfile
       /\ (split_pc = "entries" /\ shard_no' = shard_no + 1) =>
             /\ \A k \in FirstOfHash(out_entries) :
                   out_entries[k].body_offset
                      = Sum([j \in 1..(k - 1) |->
                                IF j \in FirstOfHash(out_entries)
                                THEN out_entries[j].body_size ELSE 0])
             /\ Len(datfile) = Sum([j \in 1..Len(out_entries) |->
                                      IF j \in FirstOfHash(out_entries)
                                      THEN out_entries[j].body_size ELSE 0])
             /\ Len(datfile) = output_files[ShardFile(shard_no)].size
             /\ shard_dat'[Len(shard_dat')] = datfile]_vars

\* a shard of three entries and two distinct bodies has been written; the
\* second body lies elsewhere in the shard's .dat than in the source .dat
C19_Witness ==
    /\ split_pc = "entries"
    /\ in_pos = 3 /\ Len(output_files[ShardFile(shard_no)].entries) = 3
    /\ Cardinality(FirstOfHash(out_entries)) = 2
    /\ \E k \in 1..3 :
          /\ out_entries[k].body_offset > 0
          /\ out_entries[k].body_size > 0
          /\ out_entries[k].body_offset
                # output_files[ShardFile(shard_no)].entries[k].body_offset

\* C20, as claimed: for a body of N <= 8 MiB bytes compress_file returns
\* exactly one chunk, starting at 0 with original length N, whose method is
\* Zstandard when the Zstandard output is strictly smaller than N and
\* Passthrough, with the N raw bytes, otherwise; no other codec is selected.
C20_SingleChunkZstdOrPassthrough ==
    (pl_pc = "returned" /\ PlannedSize <= SINGLE_CHUNK_LIMIT) =>
        /\ Len(pl_chunks) = 1
        /\ pl_chunks[1].start = 0
        /\ pl_chunks[1].original_size = PlannedSize
        /\ IF ZstdCompress(pl_input, PlannedSize) < PlannedSize
           THEN /\ pl_chunks[1].compressed_method = Zstandard
                /\ pl_chunks[1].compressed = ZstdCompress(pl_input, PlannedSize)
           ELSE /\ pl_chunks[1].compressed_method = Passthrough
                /\ pl_chunks[1].compressed = PlannedSize

\* the length of what the codec of stride k gives for the bytes of that
\* stride: LZ4 for the stride at 0, Zstandard for the others
CodecOutput(k) ==
    IF pl_sources[k].i = 0 THEN Lz4Compress(pl_input, pl_sources[k].len)
    ELSE ZstdCompress(pl_input, pl_sources[k].len)

\* C21, as claimed: in the chunked shape the chunk of a stride of n bytes
\* whose compressed output has c bytes is stored compressed (c bytes) exactly
\* when c < n * 3/4, and as Passthrough with compressed_length = n
\* otherwise, for every n, multiple of 4 or not.
C21_ThreeQuarterThreshold ==
    (pl_pc = "returned" /\ PlannedSize > SINGLE_CHUNK_LIMIT) =>
        \A k \in 1..Len(pl_chunks) :
            LET n == pl_chunks[k].original_size
                c == CodecOutput(k)
            IN  IF 4 * c < 3 * n
                THEN /\ pl_chunks[k].compressed_method # Passthrough
                     /\ pl_chunks[k].compressed = c
                ELSE /\ pl_chunks[k].compressed_method = Passthrough
                     /\ pl_chunks[k].compressed = n

\* the chunk returned that starts last before offset i
LastChunkBefore(i) ==
    pl_chunks[CHOOSE j \in 1..Len(pl_chunks) :
                  /\ pl_chunks[j].start < i
                  /\ \A m \in 1..Len(pl_chunks) :
                        pl_chunks[m].start < i => pl_chunks[m].start <= pl_chunks[j].start]

\* stride k meets the conditions of the coalesce check: the last chunk L
\* before it is not Passthrough, has less than CHUNK_SIZE * 3/4 compressed
\* bytes, and Zstandard gives fewer than CHUNK_SIZE bytes for the range from
\* L's start to the end of the stride
Coalescible(k) ==
    LET L == LastChunkBefore(pl_sources[k].i)
        end == pl_sources[k].i + pl_sources[k].len
    IN  /\ L.compressed_method # Passthrough
        /\ 4 * L.compressed < 3 * CHUNK_SIZE
        /\ ZstdCompress(pl_input, end - L.start) < CHUNK_SIZE

\* C22, as claimed: in the chunked shape, a stride that meets the
\* conditions of the coalesce check gets no chunk of its own (the last
\* chunk is replaced by one that covers the stride too), so the body has
\* fewer chunks than strides.
C22_CoalescedStrideHasNoChunk ==
    (pl_pc = "returned" /\ PlannedSize > SINGLE_CHUNK_LIMIT) =>
        \A k \in 2..Len(pl_sources) :
            Coalescible(k) =>
                /\ \A j \in 1..Len(pl_chunks) : pl_chunks[j].start # pl_sources[k].i
                /\ Len(pl_chunks) < Len(pl_sources)

====
